---- MODULE Spec2Model ----
(***************************************************************************)
(* Model of examples/computing.py of smartalloc: blades with CPU and       *)
(* memory capacity, tasks with CPU and memory cost, the constraints the    *)
(* example builds over the decision variables, the solve and the per-blade *)
(* report read back from the returned assignment.                          *)
(*                                                                         *)
(* CPU quantities are counted in a fixed unit so that they are integers.   *)
(***************************************************************************)
EXTENDS Integers, Sequences, FiniteSets

VARIABLES pc, Blade, tasks, blades, resource_constraints, task_constraints,
          alloc, worked, worked_per_blade, err, prev_worked

vars == <<pc, Blade, tasks, blades, resource_constraints, task_constraints,
          alloc, worked, worked_per_blade, err, prev_worked>>

\* Bounds of the model.
MaxTasks == 2
MaxBlades == 2
MaxCost == 2
MaxCap == 2

\* Values a task's declared cost is drawn from, and a blade's capacity.
CostVals == 1..MaxCost
CapVals == 1..MaxCap
\* Values the solver may give a cost variable cpu[i] / mem[i].
SlotVals == (0 - 1)..MaxCost

\* No assignment returned yet / no earlier result.
NoAlloc == [running |-> <<>>, cpu |-> <<>>, mem |-> <<>>]
NoResult == 0 - 1

\* range(num_tasks): empty when num_tasks <= 0.
Slots == 0..(Blade.num_tasks - 1)
BladeIdx == 1..Len(blades)

RECURSIVE SumOver(_, _)
\* sa.sum over the expressions f[i], i in S.
SumOver(f, S) ==
    IF S = {} THEN 0
    ELSE LET i == CHOOSE x \in S : TRUE
         IN f[i] + SumOver(f, S \ {i})

\* Blade._cond: sa.If(self.running[i], rsrc[i], 0), evaluated under a.
cond(a, b, i, rsrc) == IF i \in a.running[b] THEN rsrc[i] ELSE 0
cond_cpu(a, b, i) == cond(a, b, i, a.cpu)
cond_mem(a, b, i) == cond(a, b, i, a.mem)

\* Blade.get_constraints with the memory bound left out.
BladeConstraintsCpuOnly(a, r) ==
    SumOver([i \in Slots |-> cond_cpu(a, r.blade, i)], Slots) <= r.num_cpu

\* Blade.get_constraints with the comparisons the wrong way round.
BladeConstraintsFlipped(a, r) ==
    /\ SumOver([i \in Slots |-> cond_cpu(a, r.blade, i)], Slots) >= r.num_cpu
    /\ SumOver([i \in Slots |-> cond_mem(a, r.blade, i)], Slots) >= r.total_mem

\* The constraint Blade.get_constraints returned for a blade (r), evaluated
\* under assignment a.
BladeConstraints(a, r) ==
    /\ SumOver([i \in Slots |-> cond_cpu(a, r.blade, i)], Slots) <= r.num_cpu
    /\ SumOver([i \in Slots |-> cond_mem(a, r.blade, i)], Slots) <= r.total_mem

\* Blade.get_global_constraints, evaluated under assignment a.
GlobalConstraints(a) ==
    /\ \A i \in Slots : a.cpu[i] >= 0
    /\ \A i \in Slots : a.mem[i] >= 0

\* Task._assign_blade / Task._assign_blades, evaluated under assignment a.
assign_blade(a, id, b) == id \in a.running[b]
assign_blades(a, id, bs) == \E b \in bs : assign_blade(a, id, b)

\* The constraint Task.get_constraints returned (c), evaluated under a.
TaskConstraints(a, c) ==
    /\ a.cpu[c.id] = c.cpu
    /\ a.mem[c.id] = c.mem
    /\ assign_blades(a, c.id, c.blades)

\* The constraint objects main collects: they hold the capacities and costs
\* of the blade and the task they were built from.
ResourceConstraintsOf(bl) ==
    <<[kind |-> "global", blade |-> 0, num_cpu |-> 0, total_mem |-> 0]>>
    \o [b \in 1..Len(bl) |->
          [kind |-> "blade", blade |-> b,
           num_cpu |-> bl[b].num_cpu, total_mem |-> bl[b].total_mem]]
TaskConstraintOf(t, bs) == [id |-> t.id, cpu |-> t.cpu, mem |-> t.mem, blades |-> bs]

\* A resource-side constraint object, evaluated under a.
ResourceHolds(a, r) ==
    IF r.kind = "global" THEN GlobalConstraints(a) ELSE BladeConstraints(a, r)

\* sa.allocate: the resource constraints are hard, the task constraints
\* are soft and as many of them as possible are satisfied.
Hard(a) == \A k \in 1..Len(resource_constraints) : ResourceHolds(a, resource_constraints[k])
Satisfied(a) == {k \in 1..Len(task_constraints) : TaskConstraints(a, task_constraints[k])}

\* Every valuation of the decision variables.
Assignments ==
    [running : [BladeIdx -> SUBSET Slots],
     cpu : [Slots -> SlotVals],
     mem : [Slots -> SlotVals]]

Feasible == {a \in Assignments : Hard(a)}

MaxWorked(F) ==
    LET Sc == {Cardinality(Satisfied(a)) : a \in F}
    IN CHOOSE n \in Sc : \A m \in Sc : m <= n

RECURSIVE Ordered(_, _)
\* [i for i in range(num_tasks) if i in S]
Ordered(S, i) ==
    IF i >= Blade.num_tasks THEN <<>>
    ELSE (IF i \in S THEN <<i>> ELSE <<>>) \o Ordered(S, i + 1)

Init ==
    /\ pc = "start"
    /\ Blade = [num_tasks |-> 0]
    /\ tasks = <<>>
    /\ blades = <<>>
    /\ resource_constraints = <<>>
    /\ task_constraints = <<>>
    /\ alloc = NoAlloc
    /\ worked = 0
    /\ worked_per_blade = <<>>
    /\ err = "none"
    /\ prev_worked = NoResult

\* define_blade(num_tasks)
DefineBlade(n) ==
    /\ pc = "start"
    /\ Blade' = [num_tasks |-> n]
    /\ pc' = "tasks"
    /\ UNCHANGED <<tasks, blades, resource_constraints, task_constraints,
                   alloc, worked, worked_per_blade, err, prev_worked>>

\* Task(i, cpu_cost, mem_cost), ids dense from zero
NewTask(c, m) ==
    /\ pc = "tasks"
    /\ Len(tasks) < Blade.num_tasks
    /\ tasks' = Append(tasks, [id |-> Len(tasks), cpu |-> c, mem |-> m])
    /\ UNCHANGED <<pc, Blade, blades, resource_constraints, task_constraints,
                   alloc, worked, worked_per_blade, err, prev_worked>>

\* Blade(num_cpu, total_mem)
NewBlade(c, m) ==
    /\ pc \in {"tasks", "blades"}
    /\ Len(tasks) >= Blade.num_tasks
    /\ Len(blades) < MaxBlades
    /\ blades' = Append(blades, [num_cpu |-> c, total_mem |-> m])
    /\ pc' = "blades"
    /\ UNCHANGED <<Blade, tasks, resource_constraints, task_constraints,
                   alloc, worked, worked_per_blade, err, prev_worked>>

\* resource_constraints = [Blade.get_global_constraints(), *[b.get_constraints() ...]]
BuildResourceConstraints ==
    /\ pc \in {"tasks", "blades"}
    /\ Len(tasks) >= Blade.num_tasks
    /\ resource_constraints' = ResourceConstraintsOf(blades)
    /\ pc' = "constraints"
    /\ UNCHANGED <<Blade, tasks, blades, task_constraints,
                   alloc, worked, worked_per_blade, err, prev_worked>>

\* Task.get_constraints that takes blades[0] of an empty sequence for granted.
TaskGetConstraintsUnchecked(bs) ==
    /\ pc = "constraints"
    /\ Len(task_constraints) < Len(tasks)
    /\ task_constraints' =
         Append(task_constraints, TaskConstraintOf(tasks[Len(task_constraints) + 1], bs))
    /\ UNCHANGED <<pc, err, Blade, tasks, blades, resource_constraints,
                   alloc, worked, worked_per_blade, prev_worked>>

\* task.get_constraints(bs) of the next task: blades[0] and Blade.cpu[self.id]
\* raise IndexError on an empty sequence / an id without a slot.
TaskGetConstraints(bs) ==
    /\ pc = "constraints"
    /\ Len(task_constraints) < Len(tasks)
    /\ LET t == tasks[Len(task_constraints) + 1] IN
         IF bs = {} \/ t.id \notin Slots
         THEN /\ err' = "IndexError"
              /\ pc' = "failed"
              /\ UNCHANGED task_constraints
         ELSE /\ task_constraints' = Append(task_constraints, TaskConstraintOf(t, bs))
              /\ UNCHANGED <<pc, err>>
    /\ UNCHANGED <<Blade, tasks, blades, resource_constraints,
                   alloc, worked, worked_per_blade, prev_worked>>

\* alloc, worked = sa.allocate(resource_constraints, task_constraints)
Allocate ==
    /\ pc = "constraints"
    /\ Len(task_constraints) = Len(tasks)
    /\ \E F \in {Feasible} :
         IF F = {}
         THEN /\ err' = "InfeasibilityError"
              /\ pc' = "failed"
              /\ UNCHANGED <<alloc, worked>>
         ELSE \E best \in {MaxWorked(F)} :
              /\ \E a \in F :
                    /\ Cardinality(Satisfied(a)) = best
                    /\ alloc' = a
              /\ worked' = best
              /\ pc' = "solved"
              /\ UNCHANGED err
    /\ UNCHANGED <<Blade, tasks, blades, resource_constraints, task_constraints,
                   worked_per_blade, prev_worked>>

\* worked_per_blade = [[i for i in range(num_tasks) if alloc[blade.running[i]]] ...]
Interpret ==
    /\ pc = "solved"
    /\ worked_per_blade' = [b \in BladeIdx |-> Ordered(alloc.running[b], 0)]
    /\ pc' = "reported"
    /\ UNCHANGED <<Blade, tasks, blades, resource_constraints, task_constraints,
                   alloc, worked, err, prev_worked>>

Next ==
    \/ \E n \in (0 - 1)..MaxTasks : DefineBlade(n)
    \/ \E c \in CostVals, m \in CostVals : NewTask(c, m)
    \/ \E c \in CapVals, m \in CapVals : NewBlade(c, m)
    \/ BuildResourceConstraints
    \/ \E bs \in SUBSET BladeIdx : TaskGetConstraints(bs)
    \/ Allocate
    \/ Interpret

Spec == Init /\ [][Next]_vars

\* ---------------------------------------------------------------------
\* Runs of main on inputs that differ in one blade's capacity.

TaskOf(i, cm) == [id |-> i, cpu |-> cm[1], mem |-> cm[2]]
BladeOf(cm) == [num_cpu |-> cm[1], total_mem |-> cm[2]]

\* main up to the solve; every task is given some of the blades.
InitMono ==
    /\ pc = "constraints"
    /\ \E n \in 1..MaxTasks : \E tc \in [1..n -> CostVals \X CostVals] :
         /\ Blade = [num_tasks |-> n]
         /\ tasks = [k \in 1..n |-> TaskOf(k - 1, tc[k])]
    /\ \E nb \in 1..MaxBlades : \E bc \in [1..nb -> CapVals \X CapVals] :
         blades = [b \in 1..nb |-> BladeOf(bc[b])]
    /\ resource_constraints = ResourceConstraintsOf(blades)
    /\ \E cs \in [1..Len(tasks) -> (SUBSET BladeIdx) \ {{}}] :
         task_constraints = [k \in 1..Len(tasks) |-> TaskConstraintOf(tasks[k], cs[k])]
    /\ alloc = NoAlloc
    /\ worked = 0
    /\ worked_per_blade = <<>>
    /\ err = "none"
    /\ prev_worked = NoResult

\* main run again with blade b built as Blade(c, m), c and m no smaller than
\* before and one of them larger; prev_worked keeps the earlier run's count.
Regrow(b, c, m) ==
    /\ pc = "solved"
    /\ b \in BladeIdx
    /\ c >= blades[b].num_cpu
    /\ m >= blades[b].total_mem
    /\ c > blades[b].num_cpu \/ m > blades[b].total_mem
    /\ blades' = [blades EXCEPT ![b] = BladeOf(<<c, m>>)]
    /\ resource_constraints' = ResourceConstraintsOf(blades')
    /\ prev_worked' = worked
    /\ alloc' = NoAlloc
    /\ worked' = 0
    /\ pc' = "constraints"
    /\ UNCHANGED <<Blade, tasks, task_constraints, worked_per_blade, err>>

NextMono ==
    \/ Allocate
    \/ \E b \in 1..MaxBlades, c \in CapVals, m \in CapVals : Regrow(b, c, m)

SpecMono == InitMono /\ [][NextMono]_vars

\* ---------------------------------------------------------------------
\* Properties.

\* sa.allocate has returned (alloc, worked).
Returned == pc \in {"solved", "reported"}

\* Task ids that the returned assignment has running on blade b / anywhere.
RunningOn(b) == alloc.running[b]
RunningIds == UNION {RunningOn(b) : b \in BladeIdx}

\* Declared costs of the tasks running on blade b.
DeclaredCpuOn(b) == SumOver([i \in Slots |-> tasks[i + 1].cpu], RunningOn(b))
DeclaredMemOn(b) == SumOver([i \in Slots |-> tasks[i + 1].mem], RunningOn(b))

\* C1: in every returned assignment the declared CPU costs of the tasks
\* running on a blade sum to at most the blade's CPU capacity, and their
\* declared memory costs to at most its memory capacity.
C1_CapacityRespected ==
    Returned =>
        \A b \in BladeIdx :
            /\ DeclaredCpuOn(b) <= blades[b].num_cpu
            /\ DeclaredMemOn(b) <= blades[b].total_mem

\* C2: in every returned assignment no task id is running on two distinct
\* blades.
C2_MutualExclusion ==
    Returned =>
        \A i \in Slots : \A b1 \in BladeIdx : \A b2 \in BladeIdx :
            (b1 # b2) => ~(i \in RunningOn(b1) /\ i \in RunningOn(b2))

Range(q) == {q[k] : k \in 1..Len(q)}

\* C3: the reported worked count is the number of distinct task ids in the
\* per-blade lists of the result interpreter.
C3_WorkedIsDistinctRunning ==
    (pc = "reported") =>
        worked = Cardinality(UNION {Range(worked_per_blade[b]) : b \in BladeIdx})

\* Reference search: every task is left out (0) or put on one of its
\* candidate blades, no blade's declared load exceeds its capacity.
Placements ==
    {p \in [1..Len(tasks) -> {0} \cup BladeIdx] :
        \A k \in 1..Len(tasks) : p[k] = 0 \/ p[k] \in task_constraints[k].blades}
Fits(p) ==
    \A b \in BladeIdx :
        LET on == {k \in 1..Len(tasks) : p[k] = b} IN
        /\ SumOver([k \in 1..Len(tasks) |-> tasks[k].cpu], on) <= blades[b].num_cpu
        /\ SumOver([k \in 1..Len(tasks) |-> tasks[k].mem], on) <= blades[b].total_mem
Placed(p) == Cardinality({k \in 1..Len(tasks) : p[k] # 0})
RefMax ==
    LET Cs == {Placed(p) : p \in {q \in Placements : Fits(q)}}
    IN CHOOSE n \in Cs : \A m \in Cs : m <= n

\* C4: the worked count returned by the solve is the maximum number of tasks
\* that can be placed, each on one candidate blade, within every blade's CPU
\* and memory capacity, as found by the exhaustive reference search.
C4_WorkedIsOptimum == Returned => worked = RefMax

\* C4 witness: two blades, a task is placed and another one is dropped.
C4_Witness ==
    /\ Returned
    /\ Len(blades) = 2
    /\ Len(tasks) = 2
    /\ worked = 1
    /\ RefMax = 1

\* Scenario B: one blade, two tasks of equal cost; each fits the blade alone,
\* both together exceed its CPU capacity and fit its memory.
ScenarioB ==
    /\ Len(blades) = 1
    /\ Len(tasks) = 2
    /\ tasks[1].cpu = tasks[2].cpu
    /\ tasks[1].mem = tasks[2].mem
    /\ tasks[1].cpu <= blades[1].num_cpu
    /\ tasks[1].cpu + tasks[2].cpu > blades[1].num_cpu
    /\ tasks[1].mem + tasks[2].mem <= blades[1].total_mem

\* C5: with non-negative capacities and costs and non-empty candidate sets
\* the solve never fails as infeasible, and tasks that do not fit are dropped:
\* in scenario B worked is 1 and exactly one of the two tasks is placed.
C5_AlwaysReturnsAndDrops ==
    /\ err # "InfeasibilityError"
    /\ (Returned /\ ScenarioB) => (worked = 1 /\ Cardinality(RunningIds) = 1)

\* Task.get_constraints has failed: construction stopped before the solve.
ConstructionFailed == pc = "failed" /\ Len(task_constraints) < Len(tasks)

C7_EmptyPoolRejected ==
    (pc # "start" /\ Blade.num_tasks <= 0) =>
        (err = "ConfigurationError" /\ blades = <<>>)

\* C8: in every returned assignment the cost variables cpu[i] and mem[i] of
\* every task running on some blade have the task's declared costs.
C8_SlotCostsAreDeclared ==
    Returned =>
        \A i \in RunningIds :
            /\ alloc.cpu[i] = tasks[i + 1].cpu
            /\ alloc.mem[i] = tasks[i + 1].mem

\* C9: in every returned assignment a task is running only on blades of the
\* candidate set given to its get_constraints.
C9_OnlyCandidates ==
    Returned =>
        \A k \in 1..Len(task_constraints) : \A b \in BladeIdx :
            (b \notin task_constraints[k].blades) =>
                task_constraints[k].id \notin RunningOn(b)

\* C10: when one blade's CPU or memory capacity is raised and all else is
\* kept, the optimal worked count does not decrease.
C10_Monotone ==
    (pc = "solved" /\ prev_worked # NoResult) => worked >= prev_worked

\* C10 witness: the raised capacity lets one more task be placed.
C10_Witness == pc = "solved" /\ prev_worked # NoResult /\ worked > prev_worked

====
